---- MODULE Spec2Model ----
(***************************************************************************)
(* Budget-track backend: the ledger store (transactions, categories,       *)
(* budgets), the handlers that write it, and the analytics that read it.   *)
(*                                                                         *)
(* Collections are sets of documents.  A budget or a category is denoted   *)
(* by the document itself (the unique indexes make stored documents        *)
(* pairwise different); a transaction carries its _id, since two           *)
(* transactions may agree on every field.                                  *)
(*                                                                         *)
(* A request body (Partial<I...>) is a record whose DOMAIN holds exactly   *)
(* the fields the body carries.                                            *)
(***************************************************************************)
EXTENDS Integers, Sequences, FiniteSets, TLC

VARIABLES
    budgets,      \* the Budget collection
    inflight,     \* createBudget calls between their findOne and their create
    categories,   \* the Category collection
    txns,         \* the Transaction collection
    users,        \* the User collection
    now,          \* the clock, new Date()
    resp          \* the request last served and its outcome

vars == <<budgets, inflight, categories, txns, users, now, resp>>

Users == {"u1", "u2"}
\* the accounts the user ids of the requests belong to
StoredUsers ==
    {[id |-> u, name |-> "name", email |-> <<"mail", u>>, currency |-> "USD"]
        : u \in Users}
Names == {"Food", "Rent"}
Clients == {"c1", "c2"}
Idle == [state |-> "idle"]
NoResp == [op |-> "none", ok |-> TRUE]

Has(p, f) == f \in DOMAIN p
Restrict(r, F) == [f \in F |-> r[f]]
\* Model.findByIdAndUpdate(id, update): the fields of the update replace the
\* document's, the others stay
Assign(doc, p) == [f \in DOMAIN doc |-> IF f \in DOMAIN p THEN p[f] ELSE doc[f]]

(***************************************************************************)
(* Time.  An instant is a number of ticks; a day has TicksPerDay ticks, a  *)
(* month DaysPerMonth days, a year 12 months.                              *)
(***************************************************************************)
TicksPerDay == 2
DaysPerMonth == 2
TicksPerMonth == DaysPerMonth * TicksPerDay
At(m, d, k) == (m * DaysPerMonth + d) * TicksPerDay + k
MonthIdx(t) == t \div TicksPerMonth
Year(t) == MonthIdx(t) \div 12
Month(t) == (MonthIdx(t) % 12) + 1
\* new Date(y, m, 1)
StartOfMonth(t) == At(MonthIdx(t), 0, 0)

Clock0 == At(12, 0, 1)

(***************************************************************************)
(* Budgets                                                                 *)
(***************************************************************************)
BudgetMonths == {At(11, 0, 0), At(12, 0, 0)}
Totals == {0, 1}
FoodOne == <<[category |-> "Food", budget |-> 1, spent |-> 0]>>
CategoryBudgetLists == {<<>>, FoodOne}

BudgetFields == {"month", "totalBudget", "categoryBudgets"}
WithUserId(p, u) ==
    [f \in DOMAIN p \cup {"userId"} |-> IF f = "userId" THEN u ELSE p[f]]

\* Bodies that vary the amounts, for one month: every subset of the fields
TotalsBodies ==
    {Restrict(r, F) :
        r \in [month : {At(12, 0, 0)}, totalBudget : Totals,
               categoryBudgets : CategoryBudgetLists],
        F \in SUBSET BudgetFields}
\* a body without month is refused by the schema whatever the store holds
TotalsCreateBodies == {p \in TotalsBodies : Has(p, "month")}

\* Bodies that vary the key (userId, month).  An update body is handed to
\* findByIdAndUpdate whole, so it may carry userId too
MonthCreateBodies ==
    [month : BudgetMonths, totalBudget : Totals,
     categoryBudgets : CategoryBudgetLists]
MonthUpdateBodies ==
    LET M == {[month |-> m] : m \in BudgetMonths}
    IN  M \cup {WithUserId(p, u) : p \in M \cup {<<>>}, u \in Users}

RECURSIVE SumBudgets(_)
\* categoryBudgets.reduce((sum, cat) => sum + cat.budget, 0)
SumBudgets(cbs) ==
    IF cbs = <<>> THEN 0 ELSE Head(cbs).budget + SumBudgets(Tail(cbs))

\* budgetData.categoryBudgets?.reduce(...) || 0
TotalCategoryBudget(p) ==
    IF Has(p, "categoryBudgets") THEN SumBudgets(p.categoryBudgets) ELSE 0

\* createBudget: totalCategoryBudget !== budgetData.totalBudget throws
CreateTotalsAgree(p) ==
    Has(p, "totalBudget") /\ TotalCategoryBudget(p) = p.totalBudget

\* updateBudget: the totals are compared only when both fields are truthy
\* (an array is always truthy, the number 0 is not)
UpdateTotalsChecked(p) ==
    Has(p, "categoryBudgets") /\ Has(p, "totalBudget") /\ p.totalBudget # 0

UpdateTotalsAgree(p) ==
    UpdateTotalsChecked(p) => SumBudgets(p.categoryBudgets) = p.totalBudget

\* budgetSchema: month and totalBudget are required, amounts have min 0
BudgetSchemaOk(p) ==
    /\ Has(p, "month")
    /\ Has(p, "totalBudget") /\ p.totalBudget >= 0
    /\ Has(p, "categoryBudgets") =>
          \A i \in DOMAIN p.categoryBudgets : p.categoryBudgets[i].budget >= 0

\* the document Budget.create({...budgetData, userId}) builds
NewBudget(p, u) ==
    [userId |-> u, month |-> p.month, totalBudget |-> p.totalBudget,
     categoryBudgets |->
        IF Has(p, "categoryBudgets") THEN p.categoryBudgets ELSE <<>>]

NoUniqueBudgetIndex(B, d) == TRUE

\* budgetSchema.index({userId: 1, month: 1}, {unique: true}): the write of
\* document d into collection B is refused when B holds the key already
UniqueBudgetIndex(B, d) ==
    ~ \E b \in B : b.userId = d.userId /\ b.month = d.month

\* whether (u, m) is held by a stored budget other than self
HeldByOther(u, m, self) ==
    \E b \in budgets \ self : b.userId = u /\ b.month = m

BudgetResp(op, ok, held) == [op |-> op, ok |-> ok, held |-> held]

\* createBudget up to and including the totals check (lines 126-143): the
\* findOne is awaited, so other requests run before the create
createBudgetCheck(c, u, p) ==
    /\ inflight[c] = Idle
    /\ LET existingBudget ==
              \E b \in budgets : b.userId = u /\ b.month = p.month
           held == HeldByOther(u, p.month, {})
       IN  IF existingBudget \/ ~ CreateTotalsAgree(p)
           THEN /\ resp' = BudgetResp("createBudget", FALSE, held)
                /\ UNCHANGED inflight
           ELSE /\ inflight' = [inflight EXCEPT ![c] =
                                    [state |-> "checked", userId |-> u, data |-> p]]
                /\ resp' = BudgetResp("createBudgetCheck", TRUE, held)
    /\ UNCHANGED <<budgets, categories, txns, users, now>>

\* createBudget from Budget.create on (lines 145-152)
createBudgetInsert(c) ==
    /\ inflight[c] # Idle
    /\ LET u == inflight[c].userId
           p == inflight[c].data
           held == HeldByOther(u, p.month, {})
       IN  IF BudgetSchemaOk(p) /\ UniqueBudgetIndex(budgets, NewBudget(p, u))
           THEN /\ budgets' = budgets \cup {NewBudget(p, u)}
                /\ resp' = BudgetResp("createBudget", TRUE, held)
           ELSE /\ UNCHANGED budgets
                /\ resp' = BudgetResp("createBudget", FALSE, held)
    /\ inflight' = [inflight EXCEPT ![c] = Idle]
    /\ UNCHANGED <<categories, txns, users, now>>

\* updateBudget(budgetId, updateData, userId); b is the document budgetId names
updateBudget(b, u, p) ==
    /\ b \in budgets
    /\ LET existingBudget == b.userId = u
           duplicateBudget ==
              Has(p, "month") /\
              \E d \in budgets \ {b} : d.userId = u /\ d.month = p.month
           updated == Assign(b, p)
           held == HeldByOther(updated.userId, updated.month, {b})
           accepted ==
              /\ existingBudget
              /\ ~ duplicateBudget
              /\ UpdateTotalsAgree(p)
              /\ UniqueBudgetIndex(budgets \ {b}, updated)
       IN  IF accepted
           THEN /\ budgets' = (budgets \ {b}) \cup {updated}
                /\ resp' = BudgetResp("updateBudget", TRUE, held)
           ELSE /\ UNCHANGED budgets
                /\ resp' = BudgetResp("updateBudget", FALSE, existingBudget /\ held)
    /\ UNCHANGED <<inflight, categories, txns, users, now>>

\* deleteBudget(budgetId, userId)
deleteBudget(b, u) ==
    /\ b \in budgets
    /\ IF b.userId = u
       THEN /\ budgets' = budgets \ {b}
            /\ resp' = BudgetResp("deleteBudget", TRUE, FALSE)
       ELSE /\ UNCHANGED budgets
            /\ resp' = BudgetResp("deleteBudget", FALSE, FALSE)
    /\ UNCHANGED <<inflight, categories, txns, users, now>>

Init ==
    /\ budgets = {}
    /\ inflight = [c \in Clients |-> Idle]
    /\ categories = {}
    /\ txns = {}
    /\ now = Clock0
    /\ users = StoredUsers
    /\ resp = NoResp

Next ==
    \/ \E c \in Clients, u \in Users, p \in MonthCreateBodies :
          createBudgetCheck(c, u, p)
    \/ \E c \in Clients : createBudgetInsert(c)
    \/ \E b \in budgets, u \in Users, p \in MonthUpdateBodies :
          updateBudget(b, u, p)
    \/ \E b \in budgets, u \in Users : deleteBudget(b, u)

\* the budget handlers, requests racing on the key (userId, month)
Spec == Init /\ [][Next]_vars

NextTotals ==
    \/ \E c \in Clients, u \in Users, p \in TotalsCreateBodies :
          createBudgetCheck(c, u, p)
    \/ \E c \in Clients : createBudgetInsert(c)
    \/ \E b \in budgets, u \in Users, p \in TotalsBodies :
          updateBudget(b, u, p)
    \/ \E b \in budgets, u \in Users : deleteBudget(b, u)

\* the budget handlers, requests varying the amounts
SpecTotals == Init /\ [][NextTotals]_vars

(***************************************************************************)
(* Categories and transactions: the handlers the routes mount              *)
(* (category.controller.ts, transaction.controller.ts) and                 *)
(* CategoryService.deleteCategory, which no route calls                    *)
(***************************************************************************)
MaxTxns == 2
MaxBulk == 2
MaxInUse == 1
TxnIds == 1 .. MaxTxns
DefaultNames == {"Food"}
Color == "#ef4444"
Icon == "icon"

\* amounts a request body may carry, in currency units
BodyAmounts == {-100, 0, 100}
TxnBodies ==
    [category : Names, amount : BodyAmounts, type : {"expense"}, date : {Clock0}]
TxnUpdates ==
    {Restrict(r, F) :
        r \in [userId : Users, category : Names, amount : BodyAmounts],
        F \in SUBSET {"userId", "category", "amount"}}
CategoryBodies == [name : Names, isDefault : BOOLEAN]
CategoryUpdates ==
    {Restrict(r, F) : r \in CategoryBodies, F \in SUBSET {"name", "isDefault"}}

\* categorySchema.index({userId: 1, name: 1}, {unique: true})
UniqueCategoryIndex(C, d) ==
    ~ \E c \in C : c.userId = d.userId /\ c.name = d.name

NewCategory(p, u) ==
    [userId |-> u, name |-> p.name, isDefault |-> p.isDefault,
     color |-> Color, icon |-> Icon]

AmountMinZero(a) == a >= 0

\* transactionSchema.amount: min 0.01
AmountValid(a) == a * 100 >= 1

\* runValidators: the schema's validators run on the fields the update sets
TxnUpdateValid(p) == Has(p, "amount") => AmountValid(p.amount)

\* Transaction.countDocuments({userId, category: category.name})
TransactionCount(c) ==
    Cardinality({t \in txns : t.userId = c.userId /\ t.category = c.name})

NeverDefault(c) == FALSE

\* category.isDefault, as the controller's deleteCategory reads it
IsDefault(c) == c.isDefault

FreeIds == TxnIds \ {t.id : t \in txns}
\* the k smallest unused _ids
RECURSIVE FreshIds(_, _)
FreshIds(free, k) ==
    IF k = 0 THEN <<>>
    ELSE LET i == CHOOSE x \in free : \A y \in free : x <= y
         IN  <<i>> \o FreshIds(free \ {i}, k - 1)

NewTxn(p, u, i) ==
    [id |-> i, userId |-> u, date |-> p.date, category |-> p.category,
     amount |-> p.amount, type |-> p.type]

\* c: the category the request names; u: the user who asks
CatResp(op, ok, c, u) == [op |-> op, ok |-> ok, category |-> c, caller |-> u]
TxnResp(op, ok, as) == [op |-> op, ok |-> ok, amounts |-> as]

\* POST /categories
createCategory(u, p) ==
    /\ IF UniqueCategoryIndex(categories, NewCategory(p, u))
       THEN /\ categories' = categories \cup {NewCategory(p, u)}
            /\ resp' = CatResp("createCategory", TRUE, NewCategory(p, u), u)
       ELSE /\ UNCHANGED categories
            /\ resp' = CatResp("createCategory", FALSE, NewCategory(p, u), u)
    /\ UNCHANGED <<budgets, inflight, txns, users, now>>

updateCategoryCascading(c, u, p) ==
    /\ c \in categories
    /\ LET updated == Assign(c, p)
       IN  IF c.userId = u /\ UniqueCategoryIndex(categories \ {c}, updated)
           THEN /\ categories' = (categories \ {c}) \cup {updated}
                /\ txns' = {IF t.userId = u /\ t.category = c.name
                            THEN [t EXCEPT !.category = updated.name] ELSE t
                            : t \in txns}
                /\ resp' = CatResp("updateCategory", TRUE, c, u)
           ELSE /\ UNCHANGED <<categories, txns>>
                /\ resp' = CatResp("updateCategory", FALSE, c, u)
    /\ UNCHANGED <<budgets, inflight, users, now>>

\* PUT /categories/:id
updateCategory(c, u, p) ==
    /\ c \in categories
    /\ LET updated == Assign(c, p)
       IN  IF c.userId = u /\ UniqueCategoryIndex(categories \ {c}, updated)
           THEN /\ categories' = (categories \ {c}) \cup {updated}
                /\ resp' = CatResp("updateCategory", TRUE, c, u)
           ELSE /\ UNCHANGED categories
                /\ resp' = CatResp("updateCategory", FALSE, c, u)
    /\ UNCHANGED <<budgets, inflight, txns, users, now>>

\* DELETE /categories/:id
deleteCategory(c, u) ==
    /\ c \in categories
    /\ IF c.userId = u /\ ~ IsDefault(c)
       THEN /\ categories' = categories \ {c}
            /\ resp' = CatResp("deleteCategory", TRUE, c, u)
       ELSE /\ UNCHANGED categories
            /\ resp' = CatResp("deleteCategory", FALSE, c, u)
    /\ UNCHANGED <<budgets, inflight, txns, users, now>>

\* CategoryService.deleteCategory(categoryId, userId)
CategoryService_deleteCategory(c, u) ==
    /\ c \in categories
    /\ IF c.userId = u /\ TransactionCount(c) = 0 /\ ~ c.isDefault
       THEN /\ categories' = categories \ {c}
            /\ resp' = CatResp("CategoryService.deleteCategory", TRUE, c, u)
       ELSE /\ UNCHANGED categories
            /\ resp' = CatResp("CategoryService.deleteCategory", FALSE, c, u)
    /\ UNCHANGED <<budgets, inflight, txns, users, now>>

\* POST /categories/init-defaults
initializeDefaultCategories(u) ==
    /\ IF \E c \in categories : c.userId = u
       THEN /\ UNCHANGED categories
            /\ resp' = [op |-> "initializeDefaultCategories", ok |-> FALSE]
       ELSE /\ categories' = categories \cup
                   {NewCategory([name |-> n, isDefault |-> TRUE], u) :
                        n \in DefaultNames}
            /\ resp' = [op |-> "initializeDefaultCategories", ok |-> TRUE]
    /\ UNCHANGED <<budgets, inflight, txns, users, now>>

\* POST /transactions
createTransaction(u, p) ==
    /\ FreeIds # {}
    /\ LET categoryExists ==
              \E c \in categories : c.name = p.category /\ c.userId = u
       IN  IF categoryExists /\ AmountValid(p.amount)
           THEN /\ txns' = txns \cup {NewTxn(p, u, FreshIds(FreeIds, 1)[1])}
                /\ resp' = TxnResp("createTransaction", TRUE, {p.amount})
           ELSE /\ UNCHANGED txns
                /\ resp' = TxnResp("createTransaction", FALSE, {p.amount})
    /\ UNCHANGED <<budgets, inflight, categories, users, now>>

\* PUT /transactions/:id
updateTransaction(t, u, p) ==
    /\ t \in txns
    /\ LET as == IF Has(p, "amount") THEN {p.amount} ELSE {}
       IN  IF t.userId = u /\ TxnUpdateValid(p)
           THEN /\ txns' = (txns \ {t}) \cup {Assign(t, p)}
                /\ resp' = TxnResp("updateTransaction", TRUE, as)
           ELSE /\ UNCHANGED txns
                /\ resp' = TxnResp("updateTransaction", FALSE, as)
    /\ UNCHANGED <<budgets, inflight, categories, users, now>>

\* DELETE /transactions/:id
deleteTransaction(t, u) ==
    /\ t \in txns
    /\ IF t.userId = u
       THEN /\ txns' = txns \ {t}
            /\ resp' = [op |-> "deleteTransaction", ok |-> TRUE]
       ELSE /\ UNCHANGED txns
            /\ resp' = [op |-> "deleteTransaction", ok |-> FALSE]
    /\ UNCHANGED <<budgets, inflight, categories, users, now>>

\* POST /transactions/bulk: insertMany validates every document first and
\* stores none when one fails
bulkCreateTransactions(u, ps) ==
    /\ LET as == {ps[i].amount : i \in DOMAIN ps}
           ids == FreshIds(FreeIds, Len(ps))
       IN  IF Len(ps) > 0 /\ \A a \in as : AmountValid(a)
           THEN /\ Len(ps) <= Cardinality(FreeIds)
                /\ txns' = txns \cup {NewTxn(ps[i], u, ids[i]) : i \in DOMAIN ps}
                /\ resp' = TxnResp("bulkCreateTransactions", TRUE, as)
           ELSE /\ UNCHANGED txns
                /\ resp' = TxnResp("bulkCreateTransactions", FALSE, as)
    /\ UNCHANGED <<budgets, inflight, categories, users, now>>

BulkBodies == UNION {[1 .. n -> TxnBodies] : n \in 0 .. MaxBulk}

\* the category handlers, and the transaction handlers that put a category in
\* use or free it
NextCategory ==
    \/ \E u \in Users, p \in CategoryBodies : createCategory(u, p)
    \/ \E c \in categories, u \in Users, p \in CategoryUpdates :
          updateCategory(c, u, p)
    \/ \E c \in categories, u \in Users : deleteCategory(c, u)
    \/ \E c \in categories, u \in Users : CategoryService_deleteCategory(c, u)
    \/ \E u \in Users : initializeDefaultCategories(u)
    \/ \E u \in Users, p \in {q \in TxnBodies : AmountValid(q.amount)} :
          Cardinality(txns) < MaxInUse /\ createTransaction(u, p)
    \/ \E t \in txns, u \in Users : deleteTransaction(t, u)

SpecCategory == Init /\ [][NextCategory]_vars

\* each user has the category Food and no category Rent
InitTransaction ==
    /\ budgets = {}
    /\ inflight = [c \in Clients |-> Idle]
    /\ categories =
          {NewCategory([name |-> "Food", isDefault |-> FALSE], u) : u \in Users}
    /\ txns = {}
    /\ now = Clock0
    /\ users = StoredUsers
    /\ resp = NoResp

\* the transaction handlers
NextTransaction ==
    \/ \E u \in Users, p \in TxnBodies : createTransaction(u, p)
    \/ \E t \in txns, u \in Users, p \in TxnUpdates : updateTransaction(t, u, p)
    \/ \E t \in txns, u \in Users : deleteTransaction(t, u)
    \/ \E u \in Users, ps \in BulkBodies : bulkCreateTransactions(u, ps)

SpecTransaction == InitTransaction /\ [][NextTransaction]_vars

(***************************************************************************)
(* Budget claims                                                           *)
(***************************************************************************)
BudgetWrites == {"createBudget", "updateBudget"}

\* C1: every stored budget has totalBudget equal to the sum of its
\* categoryBudgets[].budget, whatever createBudget, updateBudget and
\* deleteBudget calls were served
C1_TotalEqualsSum ==
    \A b \in budgets : b.totalBudget = SumBudgets(b.categoryBudgets)

OneBudgetPerUserMonth ==
    \A b1, b2 \in budgets :
        (b1.userId = b2.userId /\ b1.month = b2.month) => b1 = b2

\* C2: there is at most one budget per (userId, month), also when createBudget
\* calls interleave between their findOne and their create; a createBudget or
\* updateBudget whose (userId, month) is held by another stored budget is
\* rejected and leaves the collection as it was
C2_OneBudgetPerUserMonth ==
    /\ [](OneBudgetPerUserMonth /\
          ((resp.op \in BudgetWrites /\ resp.held) => ~ resp.ok))
    /\ [][(resp'.op \in BudgetWrites /\ resp'.held) => budgets' = budgets]_vars

\* two createBudget calls for one (userId, month) were both past their findOne,
\* one has stored its budget and the other was refused
C2_Witness ==
    /\ resp.op = "createBudget" /\ resp.held /\ ~ resp.ok
    /\ \E c \in Clients : inflight[c] = Idle
    /\ budgets # {}

(***************************************************************************)
(* Category and transaction claims                                         *)
(***************************************************************************)
InUse(c) == \E t \in txns : t.userId = c.userId /\ t.category = c.name
CategoryDeletes == {"deleteCategory", "CategoryService.deleteCategory"}
TxnWrites == {"createTransaction", "updateTransaction", "bulkCreateTransactions"}
CarriesNonPositive(r) == r.op \in TxnWrites /\ \E a \in r.amounts : a <= 0

\* C3: a DELETE /categories/:id on a category whose name a transaction of the
\* same user carries is rejected, and the category stays in the collection
C3_InUseNotDeleted ==
    (resp.op = "deleteCategory" /\ InUse(resp.category))
        => (~ resp.ok /\ resp.category \in categories)

\* C4: deleteCategory (the controller's and the service's) on a category with
\* isDefault = true is rejected and leaves the Category collection as it was
C4_DefaultNotDeleted ==
    /\ []((resp.op \in CategoryDeletes /\ resp.category.isDefault)
            => (~ resp.ok /\ resp.category \in categories))
    /\ [][(resp'.op \in CategoryDeletes /\ resp'.category.isDefault)
            => categories' = categories]_vars

\* the owner of a default category asked to delete it and was refused
C4_Witness ==
    /\ resp.op = "deleteCategory"
    /\ resp.category.isDefault
    /\ resp.caller = resp.category.userId
    /\ ~ resp.ok

\* C5: no step changes the userId of a stored transaction
C5_UserIdImmutable ==
    [][\A t \in txns : \A t2 \in txns' :
          t2.id = t.id => t2.userId = t.userId]_vars

MaxLedger == 3
MonthsBack == {1, 2}
StoredAmounts == {-100, 100, 300}
LedgerDates == {At(10, 0, 1), Clock0, At(12, 1, 0)}
LedgerKinds == {[category |-> "Food", type |-> "expense"],
                [category |-> "Rent", type |-> "expense"],
                [category |-> "Food", type |-> "income"]}
LedgerShapes ==
    {[userId |-> "u1", date |-> dt, category |-> k.category, type |-> k.type,
      amount |-> a] : dt \in LedgerDates, k \in LedgerKinds, a \in StoredAmounts}
    \cup {[userId |-> "u2", date |-> Clock0, category |-> "Food",
           type |-> ty, amount |-> 100] : ty \in {"income", "expense"}}
ShapeRank(s) ==
    LET user == IF s.userId = "u1" THEN 0 ELSE 1
        kind == IF s.type = "income" THEN 2
                ELSE IF s.category = "Food" THEN 0 ELSE 1
        amt  == (s.amount + 100) \div 100
    IN  ((s.date * 2 + user) * 3 + kind) * 5 + amt
Ledgers ==
    UNION {{f \in [1 .. n -> LedgerShapes] :
              \A i \in 1 .. n - 1 : ShapeRank(f[i]) <= ShapeRank(f[i + 1])}
           : n \in 0 .. MaxLedger}
SpendingQueries ==
    {Restrict(r, F) : r \in [startDate : {Clock0}, endDate : {Clock0}],
                      F \in SUBSET {"startDate", "endDate"}}

Abs(x) == IF x < 0 THEN -x ELSE x

\* $sum of '$amount'
RECURSIVE SumAmount(_)
SumAmount(S) ==
    IF S = {} THEN 0
    ELSE LET t == CHOOSE x \in S : TRUE IN t.amount + SumAmount(S \ {t})

\* $sum of { $abs: '$amount' }
RECURSIVE SumAbsAmount(_)
SumAbsAmount(S) ==
    IF S = {} THEN 0
    ELSE LET t == CHOOSE x \in S : TRUE IN Abs(t.amount) + SumAbsAmount(S \ {t})

\* startDate.setMonth(startDate.getMonth() - months)
StartDate(months) == now - months * TicksPerMonth

MonthlyMatchAllUsers(u, months) ==
    {t \in txns : t.date >= StartDate(months) /\ t.date <= now}

\* $match of getMonthlySummary
MonthlyMatch(u, months) ==
    {t \in txns : t.userId = u /\ t.date >= StartDate(months) /\ t.date <= now}

GroupKey(t) == [year |-> Year(t.date), month |-> Month(t.date)]

\* $group of getMonthlySummary
MonthlyGroup(M) ==
    {[_id |-> k,
      income |-> SumAmount({t \in M : GroupKey(t) = k /\ t.type = "income"}),
      expenses |-> SumAmount({t \in M : GroupKey(t) = k /\ t.type = "expense"})]
     : k \in {GroupKey(t) : t \in M}}

ByMonthOnly(a, b) == a._id.month < b._id.month

\* $sort: { '_id.year': 1, '_id.month': 1 }
ByYearMonth(a, b) ==
    \/ a._id.year < b._id.year
    \/ a._id.year = b._id.year /\ a._id.month < b._id.month

RECURSIVE SortMonthly(_)
SortMonthly(G) ==
    IF G = {} THEN <<>>
    ELSE LET g == CHOOSE x \in G : \A y \in G \ {x} : ~ ByYearMonth(y, x)
         IN  <<g>> \o SortMonthly(G \ {g})

\* toString().padStart(2, '0'): the two digits of a month number
PadStart2(n) == IF n < 10 THEN <<0, n>> ELSE <<n \div 10, n % 10>>

\* `${year}-${month}`: the year followed by the two digits
MonthLabel(k) == <<k.year>> \o PadStart2(k.month)

MonthlyDataSigned(g) ==
    [month |-> MonthLabel(g._id), income |-> g.income, expenses |-> g.expenses,
     net |-> g.income - g.expenses]

MonthlyData(g) ==
    [month |-> MonthLabel(g._id), income |-> g.income,
     expenses |-> Abs(g.expenses), net |-> g.income - Abs(g.expenses)]

MonthlySummary(u, months) ==
    LET s == SortMonthly(MonthlyGroup(MonthlyMatch(u, months)))
    IN  [i \in 1 .. Len(s) |-> MonthlyData(s[i])]

\* GET /analytics/monthly-summary
getMonthlySummary(u, months) ==
    /\ resp' = [op |-> "getMonthlySummary", ok |-> TRUE, userId |-> u,
                months |-> months, data |-> MonthlySummary(u, months)]
    /\ UNCHANGED <<budgets, inflight, categories, txns, users, now>>

\* matchQuery of getCategorySpending
SpendingMatch(u, q) ==
    {t \in txns : /\ t.userId = u
                  /\ t.type = "expense"
                  /\ Has(q, "startDate") => t.date >= q.startDate
                  /\ Has(q, "endDate") => t.date <= q.endDate}

\* $group of getCategorySpending
SpendingGroup(M) ==
    {[_id |-> c, amount |-> SumAbsAmount({t \in M : t.category = c})]
     : c \in {t.category : t \in M}}

ByAmountAscending(a, b) == a.amount <= b.amount

\* $sort: { amount: -1 }
ByAmountDescending(a, b) == a.amount >= b.amount

\* the orders the $sort may deliver: groups of equal amount come in any order
SortSpending(G) ==
    {s \in [1 .. Cardinality(G) -> G] :
        /\ \A i, j \in DOMAIN s : i # j => s[i] # s[j]
        /\ \A i \in DOMAIN s : i + 1 \in DOMAIN s
              => ByAmountDescending(s[i], s[i + 1])}

\* spending.reduce((sum, item) => sum + item.amount, 0)
RECURSIVE SumItems(_)
SumItems(s) == IF s = <<>> THEN 0 ELSE Head(s).amount + SumItems(Tail(s))

\* (item.amount / total) * 100, kept as the exact fraction num / den
Percentage(amount, total) ==
    IF total > 0 THEN [num |-> amount * 100, den |-> total]
    ELSE [num |-> 0, den |-> 1]

\* categoryMap.get(name)?.[field]
CategoryMapGet(u, name, field) ==
    IF \E c \in categories : c.userId = u /\ c.name = name
    THEN (CHOOSE c \in categories : c.userId = u /\ c.name = name)[field]
    ELSE "undefined"

CategorySpending(u, s) ==
    [i \in 1 .. Len(s) |->
        [category |-> s[i]._id,
         amount |-> s[i].amount,
         percentage |-> Percentage(s[i].amount, SumItems(s)),
         color |-> CategoryMapGet(u, s[i]._id, "color"),
         icon |-> CategoryMapGet(u, s[i]._id, "icon")]]

\* GET /analytics/category-spending
getCategorySpending(u, q) ==
    /\ \E s \in SortSpending(SpendingGroup(SpendingMatch(u, q))) :
          resp' = [op |-> "getCategorySpending", ok |-> TRUE, userId |-> u,
                   query |-> q, data |-> CategorySpending(u, s)]
    /\ UNCHANGED <<budgets, inflight, categories, txns, users, now>>

InitAnalytics ==
    /\ budgets = {}
    /\ inflight = [c \in Clients |-> Idle]
    /\ categories = {NewCategory([name |-> "Food", isDefault |-> FALSE], "u1")}
    /\ \E f \in Ledgers : txns = {NewTxn(f[i], f[i].userId, i) : i \in DOMAIN f}
    /\ now = Clock0
    /\ users = StoredUsers
    /\ resp = NoResp

NextAnalytics ==
    \/ \E u \in Users, months \in MonthsBack : getMonthlySummary(u, months)
    \/ \E u \in Users, q \in SpendingQueries : getCategorySpending(u, q)

SpecAnalytics == InitAnalytics /\ [][NextAnalytics]_vars

(***************************************************************************)
(* Analytics claims                                                        *)
(***************************************************************************)
Seq2Set(s) == {s[i] : i \in DOMAIN s}
LabelYear(l) == l[1]
LabelMonth(l) == l[2] * 10 + l[3]
InWindow(t, u, months) ==
    t.userId = u /\ t.date >= now - months * TicksPerMonth /\ t.date <= now
InMonth(t, l) == Year(t.date) = LabelYear(l) /\ Month(t.date) = LabelMonth(l)
RECURSIVE AbsTotal(_)
AbsTotal(S) ==
    IF S = {} THEN 0
    ELSE LET t == CHOOSE x \in S : TRUE
         IN  (IF t.amount < 0 THEN - t.amount ELSE t.amount) + AbsTotal(S \ {t})

\* C7: in every bucket of getMonthlySummary, income is the sum of abs(amount)
\* of the month's income transactions in the window and expenses the sum of
\* abs(amount) of its expense transactions, whatever the stored signs
C7_SumsOfAbs ==
    resp.op = "getMonthlySummary" =>
        \A i \in DOMAIN resp.data :
            LET b == resp.data[i]
                W == {t \in txns : InWindow(t, resp.userId, resp.months)
                                   /\ InMonth(t, b.month)}
            IN  /\ b.income = AbsTotal({t \in W : t.type = "income"})
                /\ b.expenses = AbsTotal({t \in W : t.type = "expense"})

\* the user's ledger is one expense of 100 and one income of 300, both in the
\* same month and inside the window
ExampleLedger(u, months) ==
    LET U == {t \in txns : t.userId = u}
    IN  /\ Cardinality(U) = 2
        /\ \E e, n \in U :
              /\ e.type = "expense" /\ e.amount = 100
              /\ n.type = "income" /\ n.amount = 300
              /\ Year(e.date) = Year(n.date) /\ Month(e.date) = Month(n.date)
              /\ InWindow(e, u, months) /\ InWindow(n, u, months)

\* C8: every bucket of getMonthlySummary has expenses >= 0 and
\* net = income - expenses, and the ledger of one expense of 100 and one income
\* of 300 in one month of the window gives the single bucket
\* {income 300, expenses 100, net 200}
C8_NetOfBucket ==
    resp.op = "getMonthlySummary" =>
        /\ \A i \in DOMAIN resp.data :
              /\ resp.data[i].expenses >= 0
              /\ resp.data[i].net = resp.data[i].income - resp.data[i].expenses
        /\ ExampleLedger(resp.userId, resp.months) =>
              /\ Len(resp.data) = 1
              /\ resp.data[1].income = 300
              /\ resp.data[1].expenses = 100
              /\ resp.data[1].net = 200

\* the example ledger was summarised
C8_Witness ==
    /\ resp.op = "getMonthlySummary"
    /\ ExampleLedger(resp.userId, resp.months)
    /\ Len(resp.data) = 1

\* C9: getMonthlySummary returns one bucket for each calendar month holding a
\* transaction of the user dated in [today - monthsBack months, today], none
\* for any other month, in strictly ascending order of (year, month)
C9_BucketsOfWindow ==
    resp.op = "getMonthlySummary" =>
        LET W == {t \in txns : InWindow(t, resp.userId, resp.months)}
            L == [i \in DOMAIN resp.data |->
                    <<LabelYear(resp.data[i].month), LabelMonth(resp.data[i].month)>>]
        IN  /\ Seq2Set(L) = {<<Year(t.date), Month(t.date)>> : t \in W}
            /\ \A i, j \in DOMAIN L :
                  i < j => \/ L[i][1] < L[j][1]
                           \/ L[i][1] = L[j][1] /\ L[i][2] < L[j][2]

\* two buckets in two different years, and a transaction of the user left out
\* of the window
C9_Witness ==
    /\ resp.op = "getMonthlySummary"
    /\ Len(resp.data) = 2
    /\ LabelYear(resp.data[1].month) < LabelYear(resp.data[2].month)
    /\ LabelMonth(resp.data[1].month) > LabelMonth(resp.data[2].month)
    /\ \E t \in txns : t.userId = resp.userId
                       /\ ~ InWindow(t, resp.userId, resp.months)

RECURSIVE SumNum(_)
SumNum(s) == IF s = <<>> THEN 0 ELSE Head(s).percentage.num + SumNum(Tail(s))
RECURSIVE SumRowAmounts(_)
SumRowAmounts(s) == IF s = <<>> THEN 0 ELSE Head(s).amount + SumRowAmounts(Tail(s))

\* the user's expense transactions the request's window selects
ExpensesInQuery(r) ==
    {t \in txns : /\ t.userId = r.userId
                  /\ t.type = "expense"
                  /\ ("startDate" \in DOMAIN r.query => t.date >= r.query.startDate)
                  /\ ("endDate" \in DOMAIN r.query => t.date <= r.query.endDate)}

DaysPerWeek == 3
Periods == {"week", "month", "year"}
TrendAmounts == {-100, 100, 150}
TrendDates == {At(0, 1, 1), At(1, 0, 0), At(11, 0, 0), At(11, 1, 0), Clock0}
TrendShapes ==
    {[userId |-> "u1", date |-> dt, category |-> "Food", type |-> "expense",
      amount |-> a] : dt \in TrendDates, a \in TrendAmounts}
    \cup {[userId |-> "u1", date |-> Clock0, category |-> "Food",
           type |-> "income", amount |-> 100],
          [userId |-> "u2", date |-> Clock0, category |-> "Food",
           type |-> "expense", amount |-> 100]}
TrendLedgers ==
    UNION {{f \in [1 .. n -> TrendShapes] :
              \A i \in 1 .. n - 1 : ShapeRank(f[i]) <= ShapeRank(f[i + 1])}
           : n \in 0 .. MaxLedger}

\* $week: the week of the year a date falls in
Week(t) == ((t \div TicksPerDay) % (12 * DaysPerMonth)) \div DaysPerWeek

\* new Date(now.getFullYear(), now.getMonth() - 11, 1)
TrendStart == At(MonthIdx(now) - 11, 0, 0)

\* $match of getSpendingTrends
TrendMatch(u) ==
    {t \in txns : t.userId = u /\ t.type = "expense" /\ t.date >= TrendStart}

\* groupFormat
GroupFormat(period, t) ==
    CASE period = "week" -> [week |-> Week(t.date), year |-> Year(t.date)]
      [] period = "month" -> [month |-> Month(t.date), year |-> Year(t.date)]
      [] period = "year" -> [year |-> Year(t.date)]
      [] OTHER -> <<>>

TrendGroupWithCurrent(period, M) ==
    {[_id |-> k,
      amount |-> SumAbsAmount({t \in M : GroupFormat(period, t) = k})]
     : k \in {GroupFormat(period, t) : t \in M}
              \cup {GroupFormat(period, [date |-> now])}}

\* $group of getSpendingTrends
TrendGroup(period, M) ==
    {[_id |-> k,
      amount |-> SumAbsAmount({t \in M : GroupFormat(period, t) = k})]
     : k \in {GroupFormat(period, t) : t \in M}}

\* a sort key the group's _id does not carry compares as null
SortField(g, f) == IF f \in DOMAIN g._id THEN g._id[f] ELSE -1

\* $sort: { '_id.year': 1, '_id.month': 1, '_id.week': 1 }
ByYearMonthWeek(a, b) ==
    \/ SortField(a, "year") < SortField(b, "year")
    \/ /\ SortField(a, "year") = SortField(b, "year")
       /\ \/ SortField(a, "month") < SortField(b, "month")
          \/ /\ SortField(a, "month") = SortField(b, "month")
             /\ SortField(a, "week") < SortField(b, "week")

RECURSIVE SortTrends(_)
SortTrends(G) ==
    IF G = {} THEN <<>>
    ELSE LET g == CHOOSE x \in G : \A y \in G \ {x} : ~ ByYearMonthWeek(y, x)
         IN  <<g>> \o SortTrends(G \ {g})

\* the period label of a trend point
PeriodLabel(period, k) ==
    CASE period = "year" -> <<k.year>>
      [] period = "month" -> MonthLabel(k)
      [] period = "week" -> [year |-> k.year, W |-> PadStart2(k.week)]

ChangeOverCurrent(s, i) ==
    IF i > 1
    THEN [num |-> (s[i].amount - s[i - 1].amount) * 100, den |-> s[i].amount]
    ELSE [num |-> 0, den |-> 1]

\* ((trend.amount - array[index - 1].amount) / array[index - 1].amount) * 100,
\* kept as the exact fraction num / den
Change(s, i) ==
    IF i > 1
    THEN [num |-> (s[i].amount - s[i - 1].amount) * 100, den |-> s[i - 1].amount]
    ELSE [num |-> 0, den |-> 1]

SpendingTrends(u, period) ==
    LET s == SortTrends(TrendGroup(period, TrendMatch(u)))
    IN  [i \in 1 .. Len(s) |->
            [period |-> PeriodLabel(period, s[i]._id),
             amount |-> s[i].amount,
             change |-> Change(s, i)]]

\* GET /analytics/spending-trends
getSpendingTrends(u, period) ==
    /\ resp' = [op |-> "getSpendingTrends", ok |-> TRUE, userId |-> u,
                period |-> period, data |-> SpendingTrends(u, period)]
    /\ UNCHANGED <<budgets, inflight, categories, txns, users, now>>

InitTrends ==
    /\ budgets = {}
    /\ inflight = [c \in Clients |-> Idle]
    /\ categories = {}
    /\ \E f \in TrendLedgers :
          txns = {NewTxn(f[i], f[i].userId, i) : i \in DOMAIN f}
    /\ now = Clock0
    /\ users = StoredUsers
    /\ resp = NoResp

NextTrends == \E u \in Users, period \in Periods : getSpendingTrends(u, period)

SpecTrends == InitTrends /\ [][NextTrends]_vars

\* the user's expenses are 100 in one month and 150 in the next
ExampleTrend(u) ==
    LET U == {t \in txns : t.userId = u /\ t.type = "expense"}
    IN  /\ Cardinality(U) = 2
        /\ \E a, b \in U :
              /\ a.amount = 100 /\ b.amount = 150
              /\ MonthIdx(b.date) = MonthIdx(a.date) + 1
              /\ a.date >= At(MonthIdx(now) - 11, 0, 0)

\* C11: in the series of getSpendingTrends the first point has change 0 and
\* every later point has change = (amount - previous amount) / previous amount
\* * 100, the previous amount being that of the point just before it and never
\* 0; monthly expenses of 100 then 150 give change 0 then change 50
C11_TrendChange ==
    resp.op = "getSpendingTrends" =>
        /\ \A i \in DOMAIN resp.data :
              LET c == resp.data[i].change
              IN  IF i = 1 THEN c.num = 0 /\ c.den # 0
                  ELSE /\ resp.data[i - 1].amount > 0
                       /\ c.den = resp.data[i - 1].amount
                       /\ c.num = (resp.data[i].amount - resp.data[i - 1].amount) * 100
        /\ (resp.period = "month" /\ ExampleTrend(resp.userId)) =>
              /\ Len(resp.data) = 2
              /\ resp.data[1].amount = 100 /\ resp.data[1].change.num = 0
              /\ resp.data[2].amount = 150
              /\ resp.data[2].change.num = 50 * resp.data[2].change.den

\* the months of 100 and 150 were reported
C11_Witness ==
    /\ resp.op = "getSpendingTrends"
    /\ resp.period = "month"
    /\ ExampleTrend(resp.userId)
    /\ Len(resp.data) = 2

(***************************************************************************)
(* Budget reconciliation                                                   *)
(*                                                                         *)
(* A result that may be null is a sequence: <<>> for null, <<r>> for r.    *)
(***************************************************************************)
MaxBudgets == 2
MaxSpend == 2
Null == <<>>
LastDay == DaysPerMonth - 1
FoodOnly == <<[category |-> "Food", budget |-> 200, spent |-> 0]>>
FoodAndRent == <<[category |-> "Food", budget |-> 200, spent |-> 0],
                 [category |-> "Rent", budget |-> 0, spent |-> 0]>>
StoredBudgets ==
    {[userId |-> "u1", month |-> m, totalBudget |-> 300, categoryBudgets |-> cbs]
        : m \in {At(11, 0, 0), At(12, 0, 0), At(13, 0, 0)},
          cbs \in {FoodOnly, FoodAndRent}}
    \cup {[userId |-> "u1", month |-> At(12, 1, 0), totalBudget |-> 300,
           categoryBudgets |-> FoodOnly],
          [userId |-> "u2", month |-> At(12, 0, 0), totalBudget |-> 300,
           categoryBudgets |-> FoodOnly]}
BudgetStores ==
    {B \in SUBSET StoredBudgets :
        /\ Cardinality(B) <= MaxBudgets
        /\ \A b \in B : UniqueBudgetIndex(B \ {b}, b)}
SpendShapes ==
    {[userId |-> "u1", date |-> dt, category |-> "Food", type |-> "expense",
      amount |-> 250]
        : dt \in {At(11, LastDay, 0), At(12, 0, 0), At(12, LastDay, 0),
                   At(12, LastDay, 1)}}
    \cup {[userId |-> "u1", date |-> dt, category |-> "Rent", type |-> "expense",
           amount |-> 100] : dt \in {At(11, LastDay, 0), At(12, 0, 0)}}
    \cup {[userId |-> "u1", date |-> At(12, 0, 0), category |-> "Food",
           type |-> "expense", amount |-> a] : a \in {-100, 100}}
    \cup {[userId |-> "u1", date |-> At(12, 0, 0), category |-> "Food",
           type |-> "income", amount |-> 250],
          [userId |-> "u2", date |-> At(12, 0, 0), category |-> "Food",
           type |-> "expense", amount |-> 250]}
SpendLedgers ==
    UNION {{f \in [1 .. n -> SpendShapes] :
              \A i \in 1 .. n - 1 : ShapeRank(f[i]) <= ShapeRank(f[i + 1])}
           : n \in 0 .. MaxSpend}
ProgressQueries ==
    {<<>>} \cup {[month |-> m] : m \in {At(11, 0, 0), At(12, 1, 0), At(13, 0, 0)}}

\* new Date(y, m + 1, 0): the first instant of the last day of the month
EndOfMonth(t) == At(MonthIdx(t), LastDay, 0)

\* $match and $group of the reconciliation, read through spendingMap.get(c) || 0
SpentIn(u, m, c) ==
    SumAbsAmount({t \in txns : /\ t.userId = u
                               /\ t.type = "expense"
                               /\ t.date >= StartOfMonth(m)
                               /\ t.date <= EndOfMonth(m)
                               /\ t.category = c})

\* budget > 0 ? (spent / budget) * 100 : 0, kept as the exact fraction
BudgetPercentage(spent, budget) ==
    IF budget > 0 THEN [num |-> spent * 100, den |-> budget]
    ELSE [num |-> 0, den |-> 1]

RECURSIVE SumSpent(_)
SumSpent(rows) == IF rows = <<>> THEN 0 ELSE Head(rows).spent + SumSpent(Tail(rows))

TotalOfAllSpending(rows, u, m) ==
    SumAbsAmount({t \in txns : /\ t.userId = u
                               /\ t.type = "expense"
                               /\ t.date >= StartOfMonth(m)
                               /\ t.date <= EndOfMonth(m)})

\* updatedCategoryBudgets.reduce((sum, cat) => sum + cat.spent, 0)
TotalSpent(rows, u, m) == SumSpent(rows)

\* month || new Date(new Date().getFullYear(), new Date().getMonth(), 1)
TargetMonth(q) == IF Has(q, "month") THEN q.month ELSE StartOfMonth(now)

ProgressRowsStored(b, u, m) ==
    [i \in DOMAIN b.categoryBudgets |->
        LET cb == b.categoryBudgets[i]
        IN  [category |-> cb.category,
             budget |-> cb.budget,
             spent |-> cb.spent,
             remaining |-> cb.budget - cb.spent,
             percentage |-> BudgetPercentage(cb.spent, cb.budget)]]

\* updatedCategoryBudgets of getBudgetProgress
ProgressRows(b, u, m) ==
    [i \in DOMAIN b.categoryBudgets |->
        LET cb == b.categoryBudgets[i]
        IN  [category |-> cb.category,
             budget |-> cb.budget,
             spent |-> SpentIn(u, m, cb.category),
             remaining |-> cb.budget - SpentIn(u, m, cb.category),
             percentage |-> BudgetPercentage(SpentIn(u, m, cb.category), cb.budget)]]

BudgetProgress(b, u, m) ==
    LET rows == ProgressRows(b, u, m)
        totalSpent == TotalSpent(rows, u, m)
    IN  [month |-> b.month,
         totalBudget |-> b.totalBudget,
         totalSpent |-> totalSpent,
         totalRemaining |-> b.totalBudget - totalSpent,
         totalPercentage |-> BudgetPercentage(totalSpent, b.totalBudget),
         categoryBudgets |-> rows]

NoBudgetThrows == [ok |-> FALSE, data |-> Null]

\* if (!budget) return null, sent by the route as { success: true, data }
NoBudgetProgress == [ok |-> TRUE, data |-> Null]

\* GET /analytics/budget-progress
getBudgetProgress(u, q) ==
    /\ LET targetMonth == TargetMonth(q)
           found == {b \in budgets : b.userId = u /\ b.month = targetMonth}
           out == IF found = {} THEN NoBudgetProgress
                  ELSE [ok |-> TRUE,
                        data |-> <<BudgetProgress(CHOOSE b \in found : TRUE,
                                                  u, targetMonth)>>]
       IN  resp' = [op |-> "getBudgetProgress", ok |-> out.ok, userId |-> u,
                    query |-> q, data |-> out.data]
    /\ UNCHANGED <<budgets, inflight, categories, txns, users, now>>

OldestBudget(u) ==
    LET E == {b \in budgets : b.userId = u /\ b.month <= StartOfMonth(now)}
    IN  IF E = {} THEN Null
        ELSE <<CHOOSE b \in E : \A o \in E : o.month >= b.month>>

\* Budget.findOne({ userId, month: { $lte: currentMonth } }).sort({ month: -1 })
CurrentBudget(u) ==
    LET E == {b \in budgets : b.userId = u /\ b.month <= StartOfMonth(now)}
    IN  IF E = {} THEN Null
        ELSE <<CHOOSE b \in E : \A o \in E : o.month <= b.month>>

CurrentRowsFloored(b, u) ==
    [i \in DOMAIN b.categoryBudgets |->
        LET cb == b.categoryBudgets[i]
            spent == SpentIn(u, b.month, cb.category)
        IN  [category |-> cb.category,
             budget |-> cb.budget,
             spent |-> spent,
             remaining |-> IF spent > cb.budget THEN 0 ELSE cb.budget - spent,
             percentage |-> BudgetPercentage(spent, cb.budget),
             overspent |-> spent > cb.budget]]

\* updatedCategoryBudgets of getCurrentBudget
CurrentRows(b, u) ==
    [i \in DOMAIN b.categoryBudgets |->
        LET cb == b.categoryBudgets[i]
            spent == SpentIn(u, b.month, cb.category)
        IN  [category |-> cb.category,
             budget |-> cb.budget,
             spent |-> spent,
             remaining |-> cb.budget - spent,
             percentage |-> BudgetPercentage(spent, cb.budget),
             overspent |-> spent > cb.budget]]

CurrentBudgetProgress(b, u) ==
    LET rows == CurrentRows(b, u)
        totalSpent == TotalSpent(rows, u, b.month)
    IN  [userId |-> b.userId,
         month |-> b.month,
         totalBudget |-> b.totalBudget,
         categoryBudgets |-> rows,
         totalSpent |-> totalSpent,
         totalRemaining |-> b.totalBudget - totalSpent,
         totalPercentage |-> BudgetPercentage(totalSpent, b.totalBudget),
         overspent |-> totalSpent > b.totalBudget]

getCurrentBudgetSaving(u) ==
    /\ LET budget == CurrentBudget(u)
       IN  /\ resp' = [op |-> "getCurrentBudget", ok |-> budget # Null, userId |-> u,
                       data |-> IF budget = Null THEN Null
                                ELSE <<CurrentBudgetProgress(budget[1], u)>>]
           /\ budgets' =
                 IF budget = Null THEN budgets
                 ELSE (budgets \ {budget[1]}) \cup
                      {[budget[1] EXCEPT !.categoryBudgets =
                          [i \in DOMAIN @ |->
                              [@[i] EXCEPT !.spent =
                                  SpentIn(u, budget[1].month, @[i].category)]]]}
    /\ UNCHANGED <<inflight, categories, txns, users, now>>

\* GET /budgets/current: 404 when the service returns null
getCurrentBudget(u) ==
    /\ LET budget == CurrentBudget(u)
       IN  resp' = [op |-> "getCurrentBudget", ok |-> budget # Null, userId |-> u,
                    data |-> IF budget = Null THEN Null
                             ELSE <<CurrentBudgetProgress(budget[1], u)>>]
    /\ UNCHANGED <<budgets, inflight, categories, txns, users, now>>

InitProgress ==
    /\ budgets \in BudgetStores
    /\ inflight = [c \in Clients |-> Idle]
    /\ categories = {}
    /\ \E f \in SpendLedgers :
          txns = {NewTxn(f[i], f[i].userId, i) : i \in DOMAIN f}
    /\ now = Clock0
    /\ users = StoredUsers
    /\ resp = NoResp

NextProgress ==
    \/ \E u \in Users, q \in ProgressQueries : getBudgetProgress(u, q)
    \/ \E u \in Users : getCurrentBudget(u)

SpecProgress == InitProgress /\ [][NextProgress]_vars

(***************************************************************************)
(* Budget reconciliation claims                                            *)
(***************************************************************************)
Reconciliations == {"getBudgetProgress", "getCurrentBudget"}
Reconciled == resp.op \in Reconciliations /\ resp.data # <<>>
\* the user's expenses of category c dated in the calendar month of m
MonthExpenses(u, m, c) ==
    {t \in txns : /\ t.userId = u /\ t.type = "expense" /\ t.category = c
                  /\ MonthIdx(t.date) = MonthIdx(m)}

\* C12: the result of getBudgetProgress carries, for every categoryBudget
\* entry, spent, remaining = budget - spent, percentage = spent / budget * 100
\* (0 when budget = 0) and overspent = (spent > budget), and an overall
\* overspent = (totalSpent > totalBudget)
C12_ProgressFields ==
    (resp.op = "getBudgetProgress" /\ resp.data # <<>>) =>
        LET r == resp.data[1]
        IN  /\ "overspent" \in DOMAIN r
            /\ r.overspent = (r.totalSpent > r.totalBudget)
            /\ \A i \in DOMAIN r.categoryBudgets :
                  LET row == r.categoryBudgets[i]
                  IN  /\ row.remaining = row.budget - row.spent
                      /\ row.percentage.num =
                            (IF row.budget = 0 THEN 0 ELSE row.spent * 100)
                      /\ "overspent" \in DOMAIN row
                      /\ row.overspent = (row.spent > row.budget)

\* the budget a reconciliation result was computed from
BudgetOf(r) ==
    CHOOSE b \in budgets : b.userId = resp.userId /\ b.month = r.month

\* C13: a reconciliation (getBudgetProgress, getCurrentBudget) lists exactly
\* one row per categoryBudget entry of the stored budget, in which only
\* expenses of the row's own category are counted; totalSpent is the sum of
\* spent over the listed rows and totalRemaining = totalBudget - totalSpent
C13_RowsOfAllocations ==
    Reconciled =>
        LET r == resp.data[1]
            rows == r.categoryBudgets
            cbs == BudgetOf(r).categoryBudgets
        IN  /\ Len(rows) = Len(cbs)
            /\ \A i \in DOMAIN rows :
                  /\ rows[i].category = cbs[i].category
                  /\ rows[i].spent <=
                        AbsTotal(MonthExpenses(resp.userId, r.month, rows[i].category))
            /\ r.totalSpent = SumSpent(rows)
            /\ r.totalRemaining = r.totalBudget - r.totalSpent

\* a budget with a Food row that has spending, reconciled while the user also
\* spent on a category the budget does not allocate
C13_Witness ==
    /\ resp.op = "getCurrentBudget"
    /\ resp.data # <<>>
    /\ resp.data[1].totalSpent > 0
    /\ \E t \in txns :
          /\ t.userId = resp.userId /\ t.type = "expense"
          /\ MonthIdx(t.date) = MonthIdx(resp.data[1].month)
          /\ t.date <= EndOfMonth(resp.data[1].month)
          /\ \A i \in DOMAIN resp.data[1].categoryBudgets :
                resp.data[1].categoryBudgets[i].category # t.category

\* C14: getBudgetProgress called with any date d of a month M for which the
\* user has a budget stored (at the first day of M) returns the reconciliation
\* of that budget
C14_AnyDateOfMonth ==
    (/\ resp.op = "getBudgetProgress"
     /\ "month" \in DOMAIN resp.query
     /\ \E b \in budgets : /\ b.userId = resp.userId
                           /\ b.month = StartOfMonth(resp.query.month))
        => /\ resp.data # <<>>
           /\ resp.data[1].month = StartOfMonth(resp.query.month)

\* C15: in a reconciliation every expense of the user dated in the budget's
\* calendar month, the whole last day included, is counted in the spent of
\* its category
C15_WholeMonthWindow ==
    Reconciled =>
        \A i \in DOMAIN resp.data[1].categoryBudgets :
            LET row == resp.data[1].categoryBudgets[i]
            IN  row.spent =
                  AbsTotal(MonthExpenses(resp.userId, resp.data[1].month, row.category))

\* C16: getCurrentBudget returns null exactly when the user has no budget with
\* month <= the first day of the current month; otherwise it returns the one
\* with the greatest such month, its rows counting expenses of that budget's
\* own month only
C16_CurrentBudgetSelection ==
    resp.op = "getCurrentBudget" =>
        LET E == {b \in budgets : /\ b.userId = resp.userId
                                  /\ b.month <= StartOfMonth(now)}
        IN  IF E = {} THEN resp.data = <<>>
            ELSE /\ resp.data # <<>>
                 /\ \E b \in E : b.month = resp.data[1].month
                 /\ \A b \in E : b.month <= resp.data[1].month
                 /\ \A i \in DOMAIN resp.data[1].categoryBudgets :
                       LET row == resp.data[1].categoryBudgets[i]
                           own == MonthExpenses(resp.userId, resp.data[1].month,
                                                row.category)
                       IN  /\ row.spent <= AbsTotal(own)
                           /\ row.spent >= AbsTotal({t \in own :
                                 t.date < EndOfMonth(resp.data[1].month)})

\* an earlier month's budget was selected although the user has a budget of a
\* later month, and it was reconciled against its own month while the user
\* also spent in the current month
C16_Witness ==
    /\ resp.op = "getCurrentBudget"
    /\ resp.data # <<>>
    /\ resp.data[1].month < StartOfMonth(now)
    /\ resp.data[1].totalSpent > 0
    /\ \E b \in budgets : b.userId = resp.userId /\ b.month > StartOfMonth(now)
    /\ \E t \in txns : /\ t.userId = resp.userId /\ t.type = "expense"
                       /\ MonthIdx(t.date) = MonthIdx(now)

\* C17: getBudgetProgress for a user and month with no stored budget answers
\* with success and no data
C17_NoBudgetIsNull ==
    (/\ resp.op = "getBudgetProgress"
     /\ ~ \E b \in budgets :
            /\ b.userId = resp.userId
            /\ b.month = (IF "month" \in DOMAIN resp.query THEN resp.query.month
                          ELSE StartOfMonth(now)))
        => (resp.ok /\ resp.data = <<>>)

\* the user has a budget, of another month than the one asked for
C17_Witness ==
    /\ resp.op = "getBudgetProgress"
    /\ resp.ok
    /\ resp.data = <<>>
    /\ "month" \in DOMAIN resp.query
    /\ \E b \in budgets : /\ b.userId = resp.userId
                          /\ MonthIdx(b.month) # MonthIdx(resp.query.month)

(***************************************************************************)
(* Financial overview                                                      *)
(*                                                                         *)
(* A call in flight is held in inflight[c]: the user and, for each of the  *)
(* three aggregations handed to Promise.all, its status and the documents  *)
(* it delivered.                                                           *)
(***************************************************************************)
TopLimit == 5
OverviewClock == At(13, 0, 1)
OverviewClients == {"c1"}
SubQueries == {"monthlySummary", "yearlySummary", "topCategories"}
OverviewShapes ==
    {[userId |-> "u1", date |-> dt, category |-> "Food", type |-> "income",
      amount |-> a] : dt \in {At(12, 0, 0), At(13, 0, 0)}, a \in {100, 300}}
    \cup {[userId |-> "u1", date |-> dt, category |-> "Food", type |-> "expense",
           amount |-> 100]
            : dt \in {At(11, 0, 0), At(12, 0, 0), At(13, 0, 0), At(13, LastDay, 1)}}
    \cup {[userId |-> "u1", date |-> At(13, 0, 0), category |-> "Rent",
           type |-> "expense", amount |-> a] : a \in {100, 300}}
    \cup {[userId |-> "u1", date |-> At(13, 0, 0), category |-> "Food",
           type |-> "income", amount |-> -100],
          [userId |-> "u2", date |-> At(13, 0, 0), category |-> "Food",
           type |-> "income", amount |-> 100]}
OverviewLedgers ==
    UNION {{f \in [1 .. n -> OverviewShapes] :
              \A i \in 1 .. n - 1 : ShapeRank(f[i]) <= ShapeRank(f[i + 1])}
           : n \in 0 .. MaxSpend}

\* new Date(new Date().getFullYear(), 0, 1)
StartOfYear(t) == At(Year(t) * 12, 0, 0)

\* $group by '$type' with $sum of $abs
GroupByType(M) ==
    {[_id |-> ty, total |-> SumAbsAmount({t \in M : t.type = ty})]
     : ty \in {t.type : t \in M}}

\* the first aggregation: the current month by type
MonthlyByType(u) ==
    GroupByType({t \in txns : /\ t.userId = u
                              /\ t.date >= StartOfMonth(now)
                              /\ t.date <= EndOfMonth(now)})

\* the second aggregation: the year to date by type
YearlyByType(u) ==
    GroupByType({t \in txns : /\ t.userId = u
                              /\ t.date >= StartOfYear(now)
                              /\ t.date <= EndOfMonth(now)})

\* the third aggregation: the orders $sort and $limit may deliver
TopCategories(u) ==
    LET M == {t \in txns : /\ t.userId = u
                           /\ t.type = "expense"
                           /\ t.date >= StartOfMonth(now)
                           /\ t.date <= EndOfMonth(now)}
    IN  {SubSeq(s, 1, IF Len(s) < TopLimit THEN Len(s) ELSE TopLimit)
            : s \in SortSpending(SpendingGroup(M))}

\* summary.find((s) => s._id === ty)?.total || 0
TotalOfType(S, ty) ==
    IF \E g \in S : g._id = ty THEN (CHOOSE g \in S : g._id = ty).total ELSE 0

SavingsRateUnguarded(income, expenses) ==
    [num |-> (income - expenses) * 100, den |-> income]

\* income > 0 ? ((income - expenses) / income) * 100 : 0, as an exact fraction
SavingsRate(income, expenses) ==
    IF income > 0 THEN [num |-> (income - expenses) * 100, den |-> income]
    ELSE [num |-> 0, den |-> 1]

OverviewBlock(S) ==
    LET income == TotalOfType(S, "income")
        expenses == TotalOfType(S, "expense")
    IN  [income |-> income, expenses |-> expenses, net |-> income - expenses,
         savingsRate |-> SavingsRate(income, expenses)]

Pending == [status |-> "pending", docs |-> {}]
Failed == [status |-> "failed", docs |-> {}]
Done(docs) == [status |-> "done", docs |-> docs]

NonePending(sub) == \A k \in SubQueries : sub[k].status # "pending"

\* Promise.all fulfils when every aggregation has delivered
AllDone(sub) == \A k \in SubQueries : sub[k].status = "done"

\* Promise.all rejects as soon as one aggregation has failed
SomeFailed(sub) == \E k \in SubQueries : sub[k].status = "failed"

OverviewResp(ok, u, data) ==
    [op |-> "getFinancialOverview", ok |-> ok, userId |-> u, data |-> data]

\* the three aggregations are handed to Promise.all together
overviewIssue(c, u) ==
    /\ inflight[c] = Idle
    /\ inflight' = [inflight EXCEPT ![c] =
                      [state |-> "overview", userId |-> u,
                       sub |-> [k \in SubQueries |-> Pending]]]
    /\ UNCHANGED <<budgets, categories, txns, users, now, resp>>

\* the store answers one of the aggregations
subQueryDelivers(c, k) ==
    /\ inflight[c].state = "overview"
    /\ inflight[c].sub[k].status = "pending"
    /\ \E docs \in (CASE k = "monthlySummary" -> {MonthlyByType(inflight[c].userId)}
                      [] k = "yearlySummary" -> {YearlyByType(inflight[c].userId)}
                      [] k = "topCategories" -> TopCategories(inflight[c].userId)) :
          inflight' = [inflight EXCEPT ![c].sub[k] = Done(docs)]
    /\ UNCHANGED <<budgets, categories, txns, users, now, resp>>

\* the store fails one of the aggregations
subQueryFails(c, k) ==
    /\ inflight[c].state = "overview"
    /\ inflight[c].sub[k].status = "pending"
    /\ inflight' = [inflight EXCEPT ![c].sub[k] = Failed]
    /\ UNCHANGED <<budgets, categories, txns, users, now, resp>>

\* the await resumes with the three results and the overview is returned
overviewCompose(c) ==
    /\ inflight[c].state = "overview"
    /\ AllDone(inflight[c].sub)
    /\ resp' = OverviewResp(TRUE, inflight[c].userId,
                  <<[monthly |-> OverviewBlock(inflight[c].sub["monthlySummary"].docs),
                     yearly |-> OverviewBlock(inflight[c].sub["yearlySummary"].docs),
                     topCategories |-> inflight[c].sub["topCategories"].docs]>>)
    /\ inflight' = [inflight EXCEPT ![c] = Idle]
    /\ UNCHANGED <<budgets, categories, txns, users, now>>

\* the await throws and the route answers 500
overviewReject(c) ==
    /\ inflight[c].state = "overview"
    /\ SomeFailed(inflight[c].sub)
    /\ resp' = OverviewResp(FALSE, inflight[c].userId, Null)
    /\ inflight' = [inflight EXCEPT ![c] = Idle]
    /\ UNCHANGED <<budgets, categories, txns, users, now>>

InitOverview ==
    /\ budgets = {}
    /\ inflight = [c \in Clients |-> Idle]
    /\ categories = {}
    /\ \E f \in OverviewLedgers :
          txns = {NewTxn(f[i], f[i].userId, i) : i \in DOMAIN f}
    /\ now = OverviewClock
    /\ users = StoredUsers
    /\ resp = NoResp

NextOverview ==
    \/ \E c \in OverviewClients, u \in Users : overviewIssue(c, u)
    \/ \E c \in OverviewClients, k \in SubQueries : subQueryDelivers(c, k)
    \/ \E c \in OverviewClients, k \in SubQueries : subQueryFails(c, k)
    \/ \E c \in OverviewClients : overviewCompose(c)
    \/ \E c \in OverviewClients : overviewReject(c)

SpecOverview == InitOverview /\ [][NextOverview]_vars

(***************************************************************************)
(* Financial overview claims                                               *)
(***************************************************************************)
BlockHolds(b) ==
    /\ b.net = b.income - b.expenses
    /\ b.savingsRate.den # 0
    /\ IF b.income > 0
       THEN /\ b.savingsRate.num = (b.income - b.expenses) * 100
            /\ b.savingsRate.den = b.income
       ELSE b.income = 0 /\ b.savingsRate.num = 0

\* C18: in the monthly and the yearly block of getFinancialOverview,
\* net = income - expenses, savingsRate = (income - expenses) / income * 100
\* when income > 0, and savingsRate = 0, a defined value, when income = 0
C18_SavingsRate ==
    (resp.op = "getFinancialOverview" /\ resp.ok) =>
        /\ BlockHolds(resp.data[1].monthly)
        /\ BlockHolds(resp.data[1].yearly)

\* no income this month but expenses, and income earlier in the year
C18_Witness ==
    /\ resp.op = "getFinancialOverview"
    /\ resp.ok
    /\ resp.data[1].monthly.income = 0
    /\ resp.data[1].monthly.expenses > 0
    /\ resp.data[1].yearly.income > 0

\* C19: the three aggregations of getFinancialOverview are issued together;
\* the call returns an overview only when all three have delivered, built from
\* what they delivered, and when one has failed it fails as a whole with no
\* overview
C19_AllOrNothing ==
    /\ [](\A c \in Clients : inflight[c].state = "overview"
            => DOMAIN inflight[c].sub = SubQueries)
    /\ []((resp.op = "getFinancialOverview" /\ ~ resp.ok) => resp.data = <<>>)
    /\ [][\A c \in Clients :
            /\ (inflight[c].state = "idle" /\ inflight'[c].state = "overview")
                  => \A k \in SubQueries : inflight'[c].sub[k].status = "pending"
            /\ (inflight[c].state = "overview" /\ inflight'[c].state = "idle")
                  => /\ resp'.op = "getFinancialOverview"
                     /\ IF \E k \in SubQueries : inflight[c].sub[k].status = "failed"
                        THEN ~ resp'.ok /\ resp'.data = <<>>
                        ELSE /\ \A k \in SubQueries : inflight[c].sub[k].status = "done"
                             /\ resp'.ok
                             /\ resp'.data # <<>>
                             /\ resp'.data[1].topCategories =
                                   inflight[c].sub["topCategories"].docs]_vars

\* the third aggregation has delivered, the second has failed and the first is
\* still pending
C19_Witness ==
    /\ inflight["c1"].state = "overview"
    /\ inflight["c1"].sub["topCategories"].status = "done"
    /\ inflight["c1"].sub["topCategories"].docs # <<>>
    /\ inflight["c1"].sub["yearlySummary"].status = "failed"
    /\ inflight["c1"].sub["monthlySummary"].status = "pending"

(***************************************************************************)
(* Repeated calls                                                          *)
(***************************************************************************)
RepeatedOps == {"getMonthlySummary", "getCategorySpending"}
SameQuery(q1, q2) ==
    DOMAIN q1 = DOMAIN q2 /\ \A f \in DOMAIN q1 : q1[f] = q2[f]
\* this step answers the call the previous answer was given to, the store and
\* the clock being what they were
SameCallAgain ==
    /\ resp.op \in RepeatedOps
    /\ resp'.op = resp.op
    /\ resp'.userId = resp.userId
    /\ resp.op = "getMonthlySummary" => resp'.months = resp.months
    /\ resp.op = "getCategorySpending" => SameQuery(resp'.query, resp.query)
    /\ txns' = txns /\ categories' = categories /\ budgets' = budgets
    /\ now' = now

\* C20: an analytics operation called again with the same inputs, at the same
\* clock value and with no write in between, returns the same result
C20_Idempotent == [][SameCallAgain => resp'.data = resp.data]_vars

(***************************************************************************)
(* Registration                                                            *)
(***************************************************************************)
Emails == {<<"mail", "u1">>, <<"mail", "u2">>, <<"mail", "u3">>}
RegisterBodies ==
    {Restrict(r, F) : r \in [name : {"name", "other"}, email : Emails,
                             password : {"password123"}, currency : {"EUR"}],
                      F \in {{"name", "email", "password"},
                             {"name", "email", "password", "currency"}}}

EmailNeverTaken(email) == FALSE

\* const existingUser = await User.findOne({ email })
EmailTaken(email) == \E x \in users : x.email = email

\* User.create({ name, email, password, currency: currency || 'USD' })
NewUser(p, id) ==
    [id |-> id, name |-> p.name, email |-> p.email,
     currency |-> IF Has(p, "currency") THEN p.currency ELSE "USD"]

\* sendTokenResponse(user, statusCode, res)
TokenResponse(user, statusCode) ==
    [op |-> "register", ok |-> TRUE, status |-> statusCode, email |-> user.email,
     token |-> <<"jwt", user.id>>, data |-> user]

\* POST /auth/register
register(p) ==
    /\ IF EmailTaken(p.email)
       THEN /\ UNCHANGED users
            /\ resp' = [op |-> "register", ok |-> FALSE, status |-> 400,
                        email |-> p.email]
       ELSE /\ Users \ {x.id : x \in users} # {}
            /\ LET user == NewUser(p, CHOOSE id \in Users \ {x.id : x \in users} : TRUE)
               IN  /\ users' = users \cup {user}
                   /\ resp' = TokenResponse(user, 201)
    /\ UNCHANGED <<budgets, inflight, categories, txns, now>>

InitAuth ==
    /\ budgets = {}
    /\ inflight = [c \in Clients |-> Idle]
    /\ categories = {}
    /\ txns = {}
    /\ users = {}
    /\ now = Clock0
    /\ resp = NoResp

NextAuth == \E p \in RegisterBodies : register(p)

SpecAuth == InitAuth /\ [][NextAuth]_vars

\* C25: a register with an email a stored user has is answered 400 with
\* success = false and creates no user, so no two stored users share an email;
\* a register with an unused email stores the user and is answered 201 with a
\* token
C25_OneUserPerEmail ==
    /\ [](\A x, y \in users : x.email = y.email => x = y)
    /\ [][resp'.op = "register" =>
            IF \E x \in users : x.email = resp'.email
            THEN /\ users' = users
                 /\ resp'.status = 400 /\ ~ resp'.ok
            ELSE /\ \E x \in users' \ users : x.email = resp'.email
                 /\ Cardinality(users') = Cardinality(users) + 1
                 /\ resp'.status = 201 /\ resp'.ok
                 /\ "token" \in DOMAIN resp']_vars

\* a second register with a stored user's email was refused
C25_Witness ==
    /\ resp.op = "register"
    /\ resp.status = 400
    /\ \E x \in users : x.email = resp.email
    /\ Cardinality(users) = 2

(***************************************************************************)
(* Reconciliation of budgets with stored spent values and repeated         *)
(* categories                                                              *)
(***************************************************************************)
StoredSpent == {0, 50}
FoodSpent == <<[category |-> "Food", budget |-> 200, spent |-> 50]>>
FoodTwice == <<[category |-> "Food", budget |-> 200, spent |-> 0],
               [category |-> "Food", budget |-> 100, spent |-> 0]>>
ReconcileBudgets ==
    {[userId |-> "u1", month |-> m, totalBudget |-> 300, categoryBudgets |-> cbs]
        : m \in {At(11, 0, 0), At(12, 0, 0)},
          cbs \in {FoodOnly, FoodSpent, FoodTwice, FoodAndRent}}
ReconcileStores ==
    {B \in SUBSET ReconcileBudgets :
        /\ Cardinality(B) <= MaxBudgets
        /\ \A b \in B : UniqueBudgetIndex(B \ {b}, b)}

InitReconcile ==
    /\ budgets \in ReconcileStores
    /\ inflight = [c \in Clients |-> Idle]
    /\ categories = {}
    /\ \E f \in SpendLedgers :
          txns = {NewTxn(f[i], f[i].userId, i) : i \in DOMAIN f}
    /\ users = StoredUsers
    /\ now = Clock0
    /\ resp = NoResp

SpecReconcile == InitReconcile /\ [][NextProgress]_vars

\* the budgets that differ from b in the stored spent values only
SpentVariants(b) ==
    {[b EXCEPT !.categoryBudgets =
          [i \in DOMAIN b.categoryBudgets |->
              [b.categoryBudgets[i] EXCEPT !.spent = s[i]]]]
       : s \in [DOMAIN b.categoryBudgets -> StoredSpent]}

\* C22: the figures of a reconciliation are those the operation gives for any
\* budget record that differs from the stored one in categoryBudgets[].spent
\* only
C22_StoredSpentIgnored ==
    Reconciled =>
        \A b2 \in SpentVariants(BudgetOf(resp.data[1])) :
            IF resp.op = "getBudgetProgress"
            THEN BudgetProgress(b2, resp.userId, TargetMonth(resp.query))
                    = resp.data[1]
            ELSE CurrentBudgetProgress(b2, resp.userId) = resp.data[1]

\* the budget record says spent 50 where the reconciliation reports another
\* amount
C22_Witness ==
    /\ resp.op = "getBudgetProgress"
    /\ resp.data # <<>>
    /\ BudgetOf(resp.data[1]).categoryBudgets[1].spent = 50
    /\ resp.data[1].categoryBudgets[1].spent > 50

\* the outputs getBudgetProgress and getCurrentBudget both give
SharedRow(row) ==
    [category |-> row.category, budget |-> row.budget, spent |-> row.spent,
     remaining |-> row.remaining, percentage |-> row.percentage]
SharedOutputs(r) ==
    [totalBudget |-> r.totalBudget, totalSpent |-> r.totalSpent,
     totalRemaining |-> r.totalRemaining, totalPercentage |-> r.totalPercentage,
     categoryBudgets |-> [i \in DOMAIN r.categoryBudgets |->
                             SharedRow(r.categoryBudgets[i])]]

\* C28: when getBudgetProgress without a month finds the budget of the
\* current month, getCurrentBudget on the same store selects a budget too and
\* gives the same rows and totals
C28_ProgressAgreesWithCurrent ==
    (resp.op = "getBudgetProgress" /\ DOMAIN resp.query = {} /\ resp.data # <<>>)
        => /\ CurrentBudget(resp.userId) # <<>>
           /\ SharedOutputs(CurrentBudgetProgress(CurrentBudget(resp.userId)[1],
                                                  resp.userId))
                 = SharedOutputs(resp.data[1])

\* the current month's budget was reconciled, a category being overspent,
\* while the user also has a budget of an earlier month
C28_Witness ==
    /\ resp.op = "getBudgetProgress"
    /\ DOMAIN resp.query = {}
    /\ resp.data # <<>>
    /\ resp.data[1].categoryBudgets[1].remaining < 0
    /\ \E b \in budgets : b.userId = resp.userId /\ b.month < StartOfMonth(now)

\* C29: in a reconciliation totalSpent is at most the total of the user's
\* expenses dated in the budget's month, also when the budget names a
\* category in more than one entry
C29_TotalSpentBounded ==
    Reconciled =>
        resp.data[1].totalSpent <=
            AbsTotal({t \in txns : /\ t.userId = resp.userId
                                   /\ t.type = "expense"
                                   /\ MonthIdx(t.date) = MonthIdx(resp.data[1].month)})

(***************************************************************************)
(* Categories named by stored transactions                                 *)
(***************************************************************************)
\* C27: every transaction a write path stores (createTransaction,
\* bulkCreateTransactions, updateTransaction) names a category that exists
\* for the transaction's user when the write is committed
C27_StoredCategoryExists ==
    [][\A t \in txns' \ txns :
          \E c \in categories' : c.userId = t.userId /\ c.name = t.category]_vars

(***************************************************************************)
(* Divisors of the spending trends                                         *)
(***************************************************************************)
\* C30: when every stored transaction has amount > 0, every point of the
\* series of getSpendingTrends has amount > 0 and the divisor of every change
\* is not 0, for each period
C30_NoDivisionByZero ==
    (resp.op = "getSpendingTrends" /\ \A t \in txns : t.amount > 0) =>
        \A i \in DOMAIN resp.data :
            /\ resp.data[i].amount > 0
            /\ resp.data[i].change.den # 0

\* a weekly series of several points over positive amounts, the user having
\* no expense in the current week
C30_Witness ==
    /\ resp.op = "getSpendingTrends"
    /\ resp.period = "week"
    /\ \A t \in txns : t.amount > 0
    /\ Len(resp.data) >= 2
    /\ ~ \E t \in txns : t.userId = resp.userId /\ t.date = now

(***************************************************************************)
(* Renaming a category that transactions name                              *)
(***************************************************************************)
RenameShapes ==
    {[userId |-> "u1", date |-> Clock0, category |-> "Food", type |-> "expense",
      amount |-> 100],
     [userId |-> "u1", date |-> At(10, 0, 1), category |-> "Food",
      type |-> "expense", amount |-> 300],
     [userId |-> "u1", date |-> Clock0, category |-> "Rent", type |-> "expense",
      amount |-> 100],
     [userId |-> "u2", date |-> Clock0, category |-> "Food", type |-> "expense",
      amount |-> 100]}
RenameLedgers ==
    UNION {{f \in [1 .. n -> RenameShapes] :
              \A i \in 1 .. n - 1 : ShapeRank(f[i]) <= ShapeRank(f[i + 1])}
           : n \in 0 .. MaxTxns}

\* each user has the category Food; the transactions are ones stored earlier
InitRename ==
    /\ budgets = {}
    /\ inflight = [c \in Clients |-> Idle]
    /\ categories =
          {NewCategory([name |-> "Food", isDefault |-> FALSE], u) : u \in Users}
    /\ \E f \in RenameLedgers :
          txns = {NewTxn(f[i], f[i].userId, i) : i \in DOMAIN f}
    /\ users = StoredUsers
    /\ now = Clock0
    /\ resp = NoResp

NextRename ==
    \/ \E c \in categories, u \in Users, p \in CategoryUpdates :
          updateCategory(c, u, p)
    \/ \E u \in Users, q \in SpendingQueries : getCategorySpending(u, q)

SpecRename == InitRename /\ [][NextRename]_vars

\* C24: updateCategory leaves every stored transaction as it was, and
\* getCategorySpending answers without error with a row for every category
\* name the user's expenses of the queried range carry; the row of a name the
\* user has no category for has neither color nor icon
C24_RenameKeepsTransactions ==
    /\ [][resp'.op = "updateCategory" => txns' = txns]_vars
    /\ [](resp.op = "getCategorySpending" =>
            /\ resp.ok
            /\ \A t \in txns :
                  (/\ t.userId = resp.userId /\ t.type = "expense"
                   /\ ("startDate" \in DOMAIN resp.query => t.date >= resp.query.startDate)
                   /\ ("endDate" \in DOMAIN resp.query => t.date <= resp.query.endDate))
                  => \E i \in DOMAIN resp.data : resp.data[i].category = t.category
            /\ \A i \in DOMAIN resp.data :
                  (~ \E c \in categories : /\ c.userId = resp.userId
                                            /\ c.name = resp.data[i].category)
                  => /\ resp.data[i].color = "undefined"
                     /\ resp.data[i].icon = "undefined")

\* the user's category Food was renamed to Rent and the spending still lists
\* Food, without color
C24_Witness ==
    /\ resp.op = "getCategorySpending"
    /\ \E c \in categories : c.userId = resp.userId /\ c.name = "Rent"
    /\ ~ \E c \in categories : c.userId = resp.userId /\ c.name = "Food"
    /\ \E i \in DOMAIN resp.data :
          resp.data[i].category = "Food" /\ resp.data[i].color = "undefined"

(***************************************************************************)
(* The analytics routes and their query strings                            *)
(***************************************************************************)
DefaultMonths == 6
NaN == <<>>
MonthsTexts == {"-1", "0", "1", "abc"}
MonthsQueries == {<<>>} \cup {[months |-> s] : s \in MonthsTexts}
PeriodQueries == {<<>>} \cup {[period |-> p] : p \in Periods \cup {"day"}}

\* parseInt(req.query.months): <<n>> for the number n read, NaN otherwise
ParseInt(q) ==
    IF ~ Has(q, "months") THEN NaN
    ELSE CASE q.months = "-1" -> <<-1>>
           [] q.months = "0" -> <<0>>
           [] q.months = "1" -> <<1>>
           [] OTHER -> NaN

\* parseInt(req.query.months) || 6
MonthsOf(q) ==
    LET n == ParseInt(q)
    IN  IF n = NaN \/ n = <<0>> THEN DefaultMonths ELSE n[1]

\* req.query.period || "month"
PeriodOf(q) == IF Has(q, "period") THEN q.period ELSE "month"

\* router.get("/monthly-summary")
monthlySummaryRoute(u, q) ==
    /\ resp' = [op |-> "GET /monthly-summary", ok |-> TRUE, status |-> 200,
                userId |-> u, query |-> q,
                data |-> MonthlySummary(u, MonthsOf(q))]
    /\ UNCHANGED <<budgets, inflight, categories, txns, users, now>>

\* trends.map reads trend._id.week of a group whose _id is null: the switch
\* sets no groupFormat for another period, and the one group of the matched
\* expenses has _id null
TrendsThrow(u, period) ==
    \E g \in TrendGroup(period, TrendMatch(u)) : g._id = <<>>

\* router.get("/spending-trends")
spendingTrendsRoute(u, q) ==
    /\ LET period == PeriodOf(q)
       IN  resp' = IF TrendsThrow(u, period)
                   THEN [op |-> "GET /spending-trends", ok |-> FALSE,
                         status |-> 500, userId |-> u, query |-> q]
                   ELSE [op |-> "GET /spending-trends", ok |-> TRUE,
                         status |-> 200, userId |-> u, query |-> q,
                         data |-> SpendingTrends(u, period)]
    /\ UNCHANGED <<budgets, inflight, categories, txns, users, now>>

NextRoutes ==
    \/ \E u \in Users, q \in MonthsQueries : monthlySummaryRoute(u, q)
    \/ \E u \in Users, q \in PeriodQueries : spendingTrendsRoute(u, q)

SpecRoutes == InitTrends /\ [][NextRoutes]_vars

\* C23: a spending-trends request whose period is not week, month or year
\* is answered with an error whatever the store holds, and a monthly-summary
\* request whose months is a number <= 0 is answered with an error
C23_InvalidInputFails ==
    /\ (/\ resp.op = "GET /spending-trends"
        /\ Has(resp.query, "period")
        /\ resp.query.period \notin Periods) => ~ resp.ok
    /\ (/\ resp.op = "GET /monthly-summary"
        /\ Has(resp.query, "months")
        /\ resp.query.months \in {"-1", "0"}) => ~ resp.ok

(***************************************************************************)
(* The operations that read: analytics, reconciliation, budget overview    *)
(***************************************************************************)
RecentLimit == 3
ReadShapes ==
    {[userId |-> "u1", date |-> At(12, 0, 0), category |-> "Food",
      type |-> "expense", amount |-> 250],
     [userId |-> "u1", date |-> Clock0, category |-> "Food", type |-> "income",
      amount |-> 100],
     [userId |-> "u2", date |-> Clock0, category |-> "Food", type |-> "expense",
      amount |-> 100]}
ReadLedgers ==
    UNION {{f \in [1 .. n -> ReadShapes] :
              \A i \in 1 .. n - 1 : ShapeRank(f[i]) <= ShapeRank(f[i + 1])}
           : n \in 0 .. MaxSpend}

\* Budget.find({ userId }).sort({ month: -1 }).limit(3)
RECURSIVE LatestBudgets(_, _)
LatestBudgets(B, n) ==
    IF B = {} \/ n = 0 THEN <<>>
    ELSE LET b == CHOOSE x \in B : \A y \in B : y.month <= x.month
         IN  <<b>> \o LatestBudgets(B \ {b}, n - 1)

\* $match of monthlyTrends
OverviewMatch(u) ==
    {t \in txns : /\ t.userId = u
                  /\ t.date >= At(MonthIdx(now) - 5, 0, 0)
                  /\ t.date <= EndOfMonth(now)}

\* incomeTrends (income = TRUE) and expenseTrends: amount by monthKey
TrendsOfType(u, income) ==
    LET M == {t \in OverviewMatch(u) : (t.type = "income") = income}
    IN  [l \in {MonthLabel(GroupKey(t)) : t \in M} |->
            SumAbsAmount({t \in M : MonthLabel(GroupKey(t)) = l})]

\* BudgetService.getBudgetOverview
getBudgetOverview(u) ==
    /\ LET budget == CurrentBudget(u)
       IN  resp' = [op |-> "getBudgetOverview", ok |-> TRUE, userId |-> u,
                    data |-> [currentBudget |->
                                  IF budget = Null THEN Null
                                  ELSE <<CurrentBudgetProgress(budget[1], u)>>,
                              recentBudgets |->
                                  LatestBudgets({b \in budgets : b.userId = u},
                                                RecentLimit),
                              trends |-> [income |-> TrendsOfType(u, TRUE),
                                          expenses |-> TrendsOfType(u, FALSE)]]]
    /\ UNCHANGED <<budgets, inflight, categories, txns, users, now>>

\* user u1 has the category Food and, or not, a budget of the current month
\* whose stored spent is 50
InitReads ==
    /\ budgets \in {{}, {[userId |-> "u1", month |-> At(12, 0, 0),
                          totalBudget |-> 300, categoryBudgets |-> FoodSpent]}}
    /\ inflight = [c \in Clients |-> Idle]
    /\ categories = {NewCategory([name |-> "Food", isDefault |-> FALSE], "u1")}
    /\ \E f \in ReadLedgers :
          txns = {NewTxn(f[i], f[i].userId, i) : i \in DOMAIN f}
    /\ users = StoredUsers
    /\ now = Clock0
    /\ resp = NoResp

NextReads ==
    \/ NextAnalytics
    \/ NextTrends
    \/ NextProgress
    \/ NextOverview
    \/ \E u \in Users : getBudgetOverview(u)

SpecReads == InitReads /\ [][NextReads]_vars

\* C21: no step of an analytics or reconciliation operation (getMonthlySummary,
\* getCategorySpending, getSpendingTrends, getBudgetProgress,
\* getFinancialOverview, getCurrentBudget, getBudgetOverview) changes the
\* stored transactions, categories or budgets, the budgets' stored spent
\* included
C21_ReadsKeepStore ==
    [][/\ txns' = txns
       /\ categories' = categories
       /\ budgets' = budgets]_vars

\* a reconciliation reported 250 spent while the budget record still says 50
C21_Witness ==
    /\ resp.op \in {"getCurrentBudget", "getBudgetOverview"}
    /\ \E b \in budgets :
          /\ b.userId = resp.userId
          /\ b.categoryBudgets[1].spent = 50
          /\ LET r == IF resp.op = "getCurrentBudget" THEN resp.data[1]
                      ELSE resp.data.currentBudget[1]
             IN  r.categoryBudgets[1].spent = 250

(***************************************************************************)
(* One user's answers while another user writes                            *)
(***************************************************************************)
\* user u1 has the category Food, a budget of the current month and, or not,
\* one Food expense; user u2 has the category Food and a budget
InitIsolation ==
    /\ budgets = {[userId |-> u, month |-> At(12, 0, 0), totalBudget |-> 300,
                   categoryBudgets |-> FoodSpent] : u \in Users}
    /\ inflight = [c \in Clients |-> Idle]
    /\ categories =
          {NewCategory([name |-> "Food", isDefault |-> FALSE], u) : u \in Users}
    /\ txns \in {{}, {NewTxn([date |-> Clock0, category |-> "Food",
                              type |-> "expense", amount |-> 100], "u1", 1)}}
    /\ users = StoredUsers
    /\ now = Clock0
    /\ resp = NoResp

\* user u2 writes, user u1 asks
NextIsolation ==
    \/ \E p \in {q \in TxnBodies : AmountValid(q.amount)} :
          createTransaction("u2", p)
    \/ \E t \in txns : deleteTransaction(t, "u2")
    \/ \E p \in {q \in CategoryBodies : ~ q.isDefault} : createCategory("u2", p)
    \/ \E c \in {d \in categories : d.userId = "u2"} : deleteCategory(c, "u2")
    \/ \E b \in {d \in budgets : d.userId = "u2"} : deleteBudget(b, "u2")
    \/ getMonthlySummary("u1", 1)
    \/ getCategorySpending("u1", <<>>)
    \/ getSpendingTrends("u1", "month")
    \/ getBudgetProgress("u1", <<>>)
    \/ getCurrentBudget("u1")

SpecIsolation == InitIsolation /\ [][NextIsolation]_vars

\* the transactions, categories and budgets of user a
OwnData(a) ==
    <<{t \in txns : t.userId = a}, {c \in categories : c.userId = a},
      {b \in budgets : b.userId = a}>>

\* what the five analytics operations and getCurrentBudget answer to user a,
\* for every input; an operation whose $sort leaves ties open has the set of
\* its possible answers
AnswersOf(a) ==
    [monthlySummary |-> [months \in MonthsBack |-> MonthlySummary(a, months)],
     categorySpending |->
        [q \in SpendingQueries |->
            {CategorySpending(a, s) :
                s \in SortSpending(SpendingGroup(SpendingMatch(a, q)))}],
     spendingTrends |-> [period \in Periods |-> SpendingTrends(a, period)],
     budgetProgress |->
        [q \in ProgressQueries |->
            LET found == {b \in budgets : b.userId = a /\ b.month = TargetMonth(q)}
            IN  IF found = {} THEN Null
                ELSE <<BudgetProgress(CHOOSE b \in found : TRUE, a, TargetMonth(q))>>],
     financialOverview |->
        [monthly |-> OverviewBlock(MonthlyByType(a)),
         yearly |-> OverviewBlock(YearlyByType(a)),
         topCategories |-> TopCategories(a)],
     currentBudget |->
        IF CurrentBudget(a) = Null THEN Null
        ELSE <<CurrentBudgetProgress(CurrentBudget(a)[1], a)>>]

\* C26: a step that leaves the transactions, categories and budgets of a
\* user as they were and changes the data of other users leaves
\* every answer of the five analytics operations and of getCurrentBudget to
\* that user as it was
C26_OwnDataOnly ==
    [][\A a \in Users :
          (/\ OwnData(a)' = OwnData(a)
           /\ now' = now
           /\ <<txns, categories, budgets>>' # <<txns, categories, budgets>>)
          => AnswersOf(a)' = AnswersOf(a)]_vars

\* user u1 was answered with the own expense of 100 alone, user u2 having
\* stored an expense and a category and deleted the budget
C26_Witness ==
    /\ resp.op = "getCategorySpending"
    /\ resp.userId = "u1"
    /\ Len(resp.data) = 1
    /\ resp.data[1].amount = 100
    /\ \E t \in txns : t.userId = "u2" /\ t.type = "expense"
    /\ \E c \in categories : c.userId = "u2" /\ c.name = "Rent"
    /\ ~ \E b \in budgets : b.userId = "u2"

====
